---- MODULE Spec2Model ----
(***************************************************************************)
(* Techno Playlist Finder (src/app.py): the background job pipeline.       *)
(*                                                                         *)
(*   Spec      the job engine: start_job, cancel_job, the run_job worker   *)
(*             thread of every job (one step per shared access or          *)
(*             outbound call), get_spotify_token and the progress stream.  *)
(*   SpecRate  the rate-limited fetcher: worker threads inside             *)
(*             _cooldown_for on a shared clock.                            *)
(*                                                                         *)
(* Time is an integer.  In Spec the clock counts milliseconds (job ids are *)
(* int(time.time()*1000)); a clock read returns any instant not before the *)
(* last one read.  In SpecRate the clock counts units of 0.05 s.           *)
(***************************************************************************)
EXTENDS Integers, Sequences, FiniteSets, TLC

\* ---------------------------------------------------------------- bounds
MaxJobs == 2         \* job records, in the runs with several jobs
MaxClock == 1        \* clock instants 0..MaxClock
MaxCalls == 5        \* outbound calls of a run with one job and no stream
MaxStreamCalls == 3  \* outbound calls of a run with a progress stream
MaxJobsCalls == 1    \* outbound calls of a run with several jobs
MaxGenres == 2
MaxItems == 1
MaxLinks == 1
MaxStreams == 1

\* ------------------------------------------------------ program constants
MAX_SPOTIFY_PAGES == 3
TOKEN_MARGIN_MS == 30000
DEFAULT_EXPIRES_IN == 3600

\* ------------------------------------------------------------ input sets
TECHNO_GENRES == <<"Techno", "Hard Techno", "Industrial Techno", "Peak Time Techno">>
PlaylistIds == {"p1", "p2"}
Links == {"https://a.example", "https://b.example"}
MinFollowerVals == {0, 2}
Tokens == {"", "tok"}

SeqsUpTo(S, n) == UNION {[1..k -> S] : k \in 0..n}

\* the submitted genre lists: the first k genres of the page's list
GenreLists == {SubSeq(TECHNO_GENRES, 1, k) : k \in 0..MaxGenres}

JobIx == 1..MaxJobs
JobIds == 0..MaxClock
StreamIx == 1..MaxStreams

Terminal == {"done", "cancelled", "error"}

VARIABLES
  now,          \* last instant returned by time.time(), in ms
  JOBS,         \* JOBS: job id -> job record (0: no entry)
  njobs,        \* number of job records created so far
  job,          \* the job dicts, by record
  wk,           \* run_job's thread of each job: position and locals
  TOK_CACHE,    \* the shared credential cache
  configured,   \* SPOTIFY_CLIENT_ID and SPOTIFY_CLIENT_SECRET are both set
  st,           \* the generators returned by progress()
  calls,        \* outbound calls made so far, all jobs together
  hist,         \* history of each job (not program state)
  subs,         \* history of the submissions: <<job id returned, job record>>
  lim,          \* the size of the run: [jobs, streams, calls, clock]
  clock, th, last_hit, released,  \* SpecRate
  rlim,         \* the size of a SpecRate run: [threads, reqs, fails, time]
  call, ret                       \* SpecFn: a pure function's call and what it returned

vars == <<now, JOBS, njobs, job, wk, TOK_CACHE, configured, st, calls, hist, subs, lim,
          clock, th, last_hit, released, rlim, call, ret>>
engineVars == <<now, JOBS, njobs, job, wk, TOK_CACHE, configured, st, calls, hist, subs, lim>>
rateVars == <<clock, th, last_hit, released, rlim>>
fnVars == <<call, ret>>

\* ------------------------------------------------------------- records
Msg(m, a) == [msg |-> m, arg |-> a]

NoRow == [plid |-> "", genre |-> "", followers |-> 0, contacts |-> <<>>]

\* start_job line 390: the job dict of a new submission
NewJob(id, genres, minf) ==
  [id |-> id, status |-> "queued", progress |-> 0, total_steps |-> 0,
   genres |-> genres, min_followers |-> minf, results |-> <<>>,
   cancel |-> FALSE, log |-> <<>>, last_item |-> ""]

NoJob == [NewJob(0, <<>>, 0) EXCEPT !.status = "absent"]

\* the thread started at line 392, before its first statement
NewWorker ==
  [pc |-> "L240", token |-> "", tnow |-> 0,
   data |-> [access_token |-> "", expires_in |-> 0, numeric |-> TRUE],
   gi |-> 1, page |-> 0, items |-> <<>>, plid |-> "", seen_playlists |-> {},
   results |-> <<>>, row |-> NoRow, rq |-> 1, links |-> <<>>]

NoWorker == [NewWorker EXCEPT !.pc = "none"]

\* history of a job: the messages enqueued, the ids whose detail was fetched (in
\* order) with the follower count each detail reported, the ids skipped as seen
\* before, the catalog searches made, the ids a web search was made for, the first
\* checkpoint that saw the flag with the rows held and the item in hand then, and
\* whether get_spotify_token raised, and the catalog searches, detail fetches and
\* web searches made with the flag set
NewHist ==
  [enq |-> <<>>, fetched |-> <<>>, reported |-> {}, dups |-> {}, searches |-> 0,
   websearched |-> <<>>, observed |-> FALSE, rows_at_obs |-> 0, obs_at |-> "",
   plid_at_obs |-> "", authfail |-> FALSE, late |-> 0]

\* ---------------------------------------------------------------- Init
\* the runs explored: one job in depth, one job with a progress stream, several jobs
Runs ==
  { [jobs |-> 1, streams |-> 0, calls |-> MaxCalls, clock |-> 0],
    [jobs |-> 1, streams |-> MaxStreams, calls |-> MaxStreamCalls, clock |-> 0],
    [jobs |-> MaxJobs, streams |-> 0, calls |-> MaxJobsCalls, clock |-> MaxClock] }

\* the cache also records which job's exchange wrote each of its two fields (0: none)
InitEngineOf(runs) ==
  /\ now = 0
  /\ JOBS = [i \in JobIds |-> 0]
  /\ njobs = 0
  /\ job = [j \in JobIx |-> NoJob]
  /\ wk = [j \in JobIx |-> NoWorker]
  /\ TOK_CACHE = [access_token |-> "", exp |-> 0, tok_by |-> 0, exp_by |-> 0]
  /\ configured \in BOOLEAN
  /\ st = [s \in StreamIx |-> [pc |-> "none", job |-> 0, events |-> <<>>, status |-> ""]]
  /\ calls = 0
  /\ hist = [j \in JobIx |-> NewHist]
  /\ subs = <<>>
  /\ lim \in runs

InitEngine == InitEngineOf(Runs)

\* ------------------------------------------------------ front-end handlers
\* start_job without the check of line 388
start_job_unchecked(genres, minf, t) ==
  /\ njobs < lim.jobs
  /\ t >= now /\ t <= lim.clock
  /\ now' = t
  /\ njobs' = njobs + 1
  /\ job' = [job EXCEPT ![njobs + 1] =
               [id |-> t, status |-> "queued", progress |-> 0, total_steps |-> 0,
                genres |-> genres, min_followers |-> minf, results |-> <<>>,
                cancel |-> FALSE, log |-> <<>>, last_item |-> ""]]
  /\ JOBS' = [JOBS EXCEPT ![t] = njobs + 1]
  /\ wk' = [wk EXCEPT ![njobs + 1].pc = "L240"]
  /\ subs' = Append(subs, <<t, njobs + 1>>)
  /\ UNCHANGED <<TOK_CACHE, configured, st, calls, hist, lim>>

\* start_job, lines 384-393.  The clock read of line 389 returns t.
start_job(genres, minf, t) ==
  IF genres = <<>>
  THEN UNCHANGED engineVars       \* line 388: HTTPException(400)
  ELSE /\ njobs < lim.jobs
       /\ t >= now /\ t <= lim.clock
       /\ now' = t
       /\ njobs' = njobs + 1
       /\ job' = [job EXCEPT ![njobs + 1] = NewJob(t, genres, minf)]
       /\ JOBS' = [JOBS EXCEPT ![t] = njobs + 1]
       /\ wk' = [wk EXCEPT ![njobs + 1] = NewWorker]
       /\ subs' = Append(subs, <<t, njobs + 1>>)
       /\ UNCHANGED <<TOK_CACHE, configured, st, calls, hist, lim>>

StartJob == (\E genres \in GenreLists, minf \in MinFollowerVals, t \in JobIds :
              start_job(genres, minf, t)) /\ UNCHANGED <<rateVars, fnVars>>

\* cancel_job writing the status itself
cancel_job_sets_status(job_id) ==
  /\ JOBS[job_id] # 0
  /\ job' = [job EXCEPT ![JOBS[job_id]].cancel = TRUE, ![JOBS[job_id]].status = "cancelled"]
  /\ UNCHANGED <<now, JOBS, njobs, wk, TOK_CACHE, configured, st, calls, hist, subs, lim>>

\* cancel_job, lines 395-400
cancel_job(job_id) ==
  IF JOBS[job_id] = 0
  THEN UNCHANGED engineVars       \* line 398: HTTPException(404)
  ELSE /\ job' = [job EXCEPT ![JOBS[job_id]].cancel = TRUE]
       /\ UNCHANGED <<now, JOBS, njobs, wk, TOK_CACHE, configured, st, calls, hist, subs, lim>>

CancelJob == (\E job_id \in JobIds : cancel_job(job_id)) /\ UNCHANGED <<rateVars, fnVars>>

\* ------------------------------------------------------------ the worker
\* job["log"].put(m) by the worker of job j, with the position it moves to
Put(j, m, pc) ==
  /\ job' = [job EXCEPT ![j].log = Append(@, m)]
  /\ hist' = [hist EXCEPT ![j].enq = Append(@, m)]
  /\ wk' = [wk EXCEPT ![j].pc = pc]

\* the worker sees job["cancel"] set at the checkpoint at
Observe(j, at) ==
  hist' = [hist EXCEPT ![j] =
            IF @.observed THEN @
            ELSE [@ EXCEPT !.observed = TRUE, !.obs_at = at,
                           !.rows_at_obs = Len(wk[j].results),
                           !.plid_at_obs = wk[j].plid]]

\* the count of calls made with the flag set, after one more call by job j
Late(j, n) == IF job[j].cancel THEN n + 1 ELSE n

\* an outbound call is made (one whole http_get / http_post, retries included)
Call == /\ calls < lim.calls
        /\ calls' = calls + 1

\* lines 240-241
run_job_running(j) ==
  /\ wk[j].pc = "L240"
  /\ job' = [job EXCEPT ![j].status = "running", ![j].progress = 0]
  /\ wk' = [wk EXCEPT ![j].pc = "L242"]
  /\ UNCHANGED <<now, JOBS, njobs, TOK_CACHE, configured, st, calls, hist, subs, lim>>

\* line 242
run_job_log_start(j) ==
  /\ wk[j].pc = "L242"
  /\ Put(j, Msg("Starte Job", ""), "L105")
  /\ UNCHANGED <<now, JOBS, njobs, TOK_CACHE, configured, st, calls, subs, lim>>

\* get_spotify_token line 106: the cached token is still good at instant t
CacheValid(cache, t) == cache.access_token # "" /\ cache.exp > t + TOKEN_MARGIN_MS

\* get_spotify_token lines 105-109, called at line 244; the clock read returns t
get_spotify_token_check(j, t) ==
  /\ wk[j].pc = "L105"
  /\ t >= now /\ t <= lim.clock
  /\ now' = t
  /\ wk' = [wk EXCEPT ![j] =
       IF CacheValid(TOK_CACHE, t)
       THEN [@ EXCEPT !.token = TOK_CACHE.access_token, !.pc = "L249"]
       ELSE IF ~configured
       THEN [@ EXCEPT !.pc = "L246"]
       ELSE [@ EXCEPT !.tnow = t, !.pc = "L112"]]
  /\ hist' = [hist EXCEPT ![j].authfail = @ \/ (~CacheValid(TOK_CACHE, t) /\ ~configured)]
  /\ UNCHANGED <<JOBS, njobs, job, TOK_CACHE, configured, st, calls, subs, lim>>

\* what the token endpoint may answer
ExchangeAnswers ==
  [kind : {"fail", "badjson"}, access_token : {""}, expires_in : {0}, numeric : {TRUE}]
  \cup [kind : {"ok"}, access_token : Tokens, expires_in : {0, DEFAULT_EXPIRES_IN},
        numeric : {TRUE}]
  \cup [kind : {"ok"}, access_token : {"tok"}, expires_in : {0}, numeric : {FALSE}]

\* get_spotify_token lines 112-113: http_post and json.loads
get_spotify_token_exchange(j, a) ==
  /\ wk[j].pc = "L112"
  /\ Call
  /\ wk' = [wk EXCEPT ![j] =
       IF a.kind = "ok"
       THEN [@ EXCEPT !.pc = "L114",
                      !.data = [access_token |-> a.access_token,
                                expires_in |-> a.expires_in, numeric |-> a.numeric]]
       ELSE [@ EXCEPT !.pc = "L246", !.tnow = 0]]
  /\ hist' = [hist EXCEPT ![j].authfail = @ \/ a.kind # "ok"]
  /\ UNCHANGED <<now, JOBS, njobs, job, TOK_CACHE, configured, st, subs, lim>>

\* get_spotify_token line 114
get_spotify_token_store(j) ==
  /\ wk[j].pc = "L114"
  /\ TOK_CACHE' = [TOK_CACHE EXCEPT !.access_token = wk[j].data.access_token,
                                    !.tok_by = j]
  /\ wk' = [wk EXCEPT ![j].pc = "L115"]
  /\ UNCHANGED <<now, JOBS, njobs, job, configured, st, calls, hist, subs, lim>>

\* get_spotify_token line 115: int() of a lifetime that is no number raises
get_spotify_token_expiry(j) ==
  /\ wk[j].pc = "L115"
  /\ IF wk[j].data.numeric
     THEN /\ TOK_CACHE' = [TOK_CACHE EXCEPT !.exp = wk[j].tnow + 1000 * wk[j].data.expires_in,
                                         !.exp_by = j]
          /\ wk' = [wk EXCEPT ![j].pc = "L116"]
          /\ UNCHANGED hist
     ELSE /\ wk' = [wk EXCEPT ![j].pc = "L246", ![j].data = NewWorker.data, ![j].tnow = 0]
          /\ hist' = [hist EXCEPT ![j].authfail = TRUE]
          /\ UNCHANGED TOK_CACHE
  /\ UNCHANGED <<now, JOBS, njobs, job, configured, st, calls, subs, lim>>

\* get_spotify_token line 116
get_spotify_token_return(j) ==
  /\ wk[j].pc = "L116"
  /\ wk' = [wk EXCEPT ![j].token = TOK_CACHE.access_token, ![j].pc = "L249",
                      ![j].data = NewWorker.data, ![j].tnow = 0]
  /\ UNCHANGED <<now, JOBS, njobs, job, TOK_CACHE, configured, st, calls, hist, subs, lim>>

\* lines 245-246
run_job_auth_error(j) ==
  /\ wk[j].pc = "L246"
  /\ job' = [job EXCEPT ![j].status = "error"]
  /\ wk' = [wk EXCEPT ![j].pc = "L247"]
  /\ UNCHANGED <<now, JOBS, njobs, TOK_CACHE, configured, st, calls, hist, subs, lim>>

\* lines 247-248 without the return
run_job_auth_log_no_return(j) ==
  /\ wk[j].pc = "L247"
  /\ job' = [job EXCEPT ![j].log = Append(@, [msg |-> "Auth-Fehler", arg |-> ""])]
  /\ hist' = [hist EXCEPT ![j].enq = Append(@, [msg |-> "Auth-Fehler", arg |-> ""])]
  /\ wk' = [wk EXCEPT ![j].pc = "L249"]
  /\ UNCHANGED <<now, JOBS, njobs, TOK_CACHE, configured, st, calls, subs, lim>>

\* lines 247-248
run_job_auth_log(j) ==
  /\ wk[j].pc = "L247"
  /\ Put(j, Msg("Auth-Fehler", ""), "done")
  /\ UNCHANGED <<now, JOBS, njobs, TOK_CACHE, configured, st, calls, subs, lim>>

\* line 254
StepTotal(genres) == IF Len(genres) > 1 THEN Len(genres) ELSE 1

\* lines 249-255
run_job_setup(j) ==
  /\ wk[j].pc = "L249"
  /\ job' = [job EXCEPT ![j].total_steps = StepTotal(job[j].genres)]
  /\ wk' = [wk EXCEPT ![j].pc = "L257", ![j].gi = 1, ![j].results = <<>>,
                      ![j].seen_playlists = {}]
  /\ UNCHANGED <<now, JOBS, njobs, TOK_CACHE, configured, st, calls, hist, subs, lim>>

\* ----------------------------------------------- what the network may answer
ItemVals == PlaylistIds \cup {"nodict", "noid"}
Emails == {"booking@artist.example"}
Socials == {"https://instagram.com/artist"}
FollowerTotals == {1, 2}

\* a catalog search page: the fetch fails, the JSON has another shape, or items
SearchAnswers ==
  [kind : {"fail", "badshape"}, items : {<<>>}]
  \cup [kind : {"ok"}, items : SeqsUpTo(ItemVals, MaxItems)]

\* what a text holds: the e-mail addresses, those verify_email accepts, the socials
Findings ==
  {f \in [raw_emails : SUBSET Emails, emails : SUBSET Emails, socials : SUBSET Socials] :
     f.emails \subseteq f.raw_emails}

\* a playlist detail: followers.total may be missing
DetailAnswers ==
  [kind : {"fail", "badshape"}, has_followers : {FALSE}, total : {0}, desc : {CHOOSE f \in Findings : f.raw_emails = {} /\ f.socials = {}}]
  \cup [kind : {"ok"}, has_followers : {TRUE}, total : FollowerTotals, desc : Findings]
  \cup [kind : {"ok"}, has_followers : {FALSE}, total : {0}, desc : Findings]

\* a contact page
PageAnswers ==
  [kind : {"fail"}, found : {CHOOSE f \in Findings : f.raw_emails = {} /\ f.socials = {}}]
  \cup [kind : {"ok"}, found : Findings]

\* ------------------------------------------------------ run_job's decisions
\* lines 270-272 without the seen_playlists test
SkipItem_unseen(it, seen) == it = "nodict" \/ it = "noid"

\* lines 270-272: the item is no dict, has no id, or its id was seen before
SkipItem(it, seen) == it = "nodict" \/ it = "noid" \/ it \in seen

\* line 278
Followers(det) == IF det.has_followers THEN det.total ELSE 0

\* line 279 with the filter dropped
BelowThreshold_never(followers, min_followers) == FALSE

\* line 279
BelowThreshold(followers, min_followers) == followers < min_followers

\* lines 299-305 and 318-324
Contact(source_url, f) ==
  [source_url |-> source_url, emails |-> f.emails, raw_emails |-> f.raw_emails,
   socials |-> f.socials, verified |-> f.emails # {}]

\* lines 287-305: the row, with the contact found in the description, if any
NewRow(plid, genre, followers, desc) ==
  [plid |-> plid, genre |-> genre, followers |-> followers,
   contacts |-> IF desc.raw_emails # {} \/ desc.socials # {}
                THEN <<Contact("spotify:description", desc)>> ELSE <<>>]

\* line 331 ignoring the flag
FinalStatus_always_done(cancel) == "done"

\* line 331
FinalStatus(cancel) == IF cancel THEN "cancelled" ELSE "done"

\* line 332
FinalMessage(cancel) == IF ~cancel THEN Msg("Job beendet.", "") ELSE Msg("Job abgebrochen.", "")

\* ------------------------------------------------------------ run_job's loops
\* lines 256-257 with a genre skipped at line 257 counted in progress
run_job_genre_counts_skipped(j) ==
  /\ wk[j].pc = "L257"
  /\ IF wk[j].gi > Len(job[j].genres)
     THEN /\ wk' = [wk EXCEPT ![j].pc = "L330"]
          /\ UNCHANGED <<hist, job>>
     ELSE IF job[j].cancel
     THEN /\ wk' = [wk EXCEPT ![j].pc = "L330"]
          /\ job' = [job EXCEPT ![j].progress = @ + 1]
          /\ Observe(j, "L257")
     ELSE /\ wk' = [wk EXCEPT ![j].pc = "L258"]
          /\ UNCHANGED <<hist, job>>
  /\ UNCHANGED <<now, JOBS, njobs, TOK_CACHE, configured, st, calls, subs, lim>>

\* lines 256-257: top of the genre loop
run_job_genre(j) ==
  /\ wk[j].pc = "L257"
  /\ IF wk[j].gi > Len(job[j].genres)
     THEN /\ wk' = [wk EXCEPT ![j].pc = "L330"]
          /\ UNCHANGED hist
     ELSE IF job[j].cancel
     THEN /\ wk' = [wk EXCEPT ![j].pc = "L330"]
          /\ Observe(j, "L257")
     ELSE /\ wk' = [wk EXCEPT ![j].pc = "L258"]
          /\ UNCHANGED hist
  /\ UNCHANGED <<now, JOBS, njobs, job, TOK_CACHE, configured, st, calls, subs, lim>>

\* line 258
run_job_log_search(j) ==
  /\ wk[j].pc = "L258"
  /\ job' = [job EXCEPT ![j].log = Append(@, Msg("Spotify-Suche", job[j].genres[wk[j].gi]))]
  /\ hist' = [hist EXCEPT ![j].enq = Append(@, Msg("Spotify-Suche", job[j].genres[wk[j].gi]))]
  /\ wk' = [wk EXCEPT ![j].pc = "L260", ![j].page = 0]
  /\ UNCHANGED <<now, JOBS, njobs, TOK_CACHE, configured, st, calls, subs, lim>>

\* lines 259-260: top of the page loop
run_job_page(j) ==
  /\ wk[j].pc = "L260"
  /\ IF wk[j].page >= MAX_SPOTIFY_PAGES
     THEN /\ wk' = [wk EXCEPT ![j].pc = "L329"]
          /\ UNCHANGED hist
     ELSE IF job[j].cancel
     THEN /\ wk' = [wk EXCEPT ![j].pc = "L329"]
          /\ Observe(j, "L260")
     ELSE /\ wk' = [wk EXCEPT ![j].pc = "L262"]
          /\ UNCHANGED hist
  /\ UNCHANGED <<now, JOBS, njobs, job, TOK_CACHE, configured, st, calls, subs, lim>>

\* lines 261-267 with a failed search ending the genre loop
run_job_search_fatal(j, a) ==
  /\ wk[j].pc = "L262"
  /\ Call
  /\ IF a.kind = "fail"
     THEN /\ job' = [job EXCEPT ![j].log = Append(@, Msg("Spotify API Fehler", ""))]
          /\ hist' = [hist EXCEPT ![j].enq = Append(@, Msg("Spotify API Fehler", "")),
                                  ![j].searches = @ + 1, ![j].late = Late(j, @)]
          /\ wk' = [wk EXCEPT ![j].pc = "L330"]
     ELSE /\ hist' = [hist EXCEPT ![j].searches = @ + 1, ![j].late = Late(j, @)]
          /\ wk' = [wk EXCEPT ![j] =
               IF a.kind = "badshape" THEN [@ EXCEPT !.pc = "dead"]
               ELSE IF a.items = <<>> THEN [@ EXCEPT !.pc = "L329"]
               ELSE [@ EXCEPT !.pc = "L269", !.items = a.items]]
          /\ UNCHANGED job
  /\ UNCHANGED <<now, JOBS, njobs, TOK_CACHE, configured, st, subs, lim>>

\* lines 261-267: search_playlists answers a
run_job_search(j, a) ==
  /\ wk[j].pc = "L262"
  /\ Call
  /\ IF a.kind = "fail"
     THEN /\ job' = [job EXCEPT ![j].log = Append(@, Msg("Spotify API Fehler", ""))]
          /\ hist' = [hist EXCEPT ![j].enq = Append(@, Msg("Spotify API Fehler", "")),
                                  ![j].searches = @ + 1, ![j].late = Late(j, @)]
          /\ wk' = [wk EXCEPT ![j].pc = "L329"]
     ELSE /\ hist' = [hist EXCEPT ![j].searches = @ + 1, ![j].late = Late(j, @)]
          /\ wk' = [wk EXCEPT ![j] =
               IF a.kind = "badshape" THEN [@ EXCEPT !.pc = "dead"]
               ELSE IF a.items = <<>> THEN [@ EXCEPT !.pc = "L329"]
               ELSE [@ EXCEPT !.pc = "L269", !.items = a.items]]
          /\ UNCHANGED job
  /\ UNCHANGED <<now, JOBS, njobs, TOK_CACHE, configured, st, subs, lim>>

\* lines 268-273 and 328: top of the item loop; items holds what is left of the page
run_job_item(j) ==
  /\ wk[j].pc = "L269"
  /\ IF wk[j].items = <<>>
     THEN /\ wk' = [wk EXCEPT ![j].pc = "L260", ![j].page = @ + 1]
          /\ UNCHANGED hist
     ELSE IF job[j].cancel
     THEN /\ wk' = [wk EXCEPT ![j].pc = "L260", ![j].page = @ + 1, ![j].items = <<>>]
          /\ Observe(j, "L269")
     ELSE /\ wk' = [wk EXCEPT ![j] =
               IF SkipItem(Head(@.items), @.seen_playlists)
               THEN [@ EXCEPT !.items = Tail(@)]
               ELSE [@ EXCEPT !.pc = "L275", !.plid = Head(wk[j].items),
                              !.seen_playlists = @ \cup {Head(wk[j].items)}]]
          /\ hist' = [hist EXCEPT ![j].dups =
                        IF Head(wk[j].items) \in wk[j].seen_playlists
                        THEN @ \cup {Head(wk[j].items)} ELSE @]
  /\ UNCHANGED <<now, JOBS, njobs, job, TOK_CACHE, configured, st, calls, subs, lim>>

\* lines 274-305: get_playlist answers det
run_job_detail(j, det) ==
  /\ wk[j].pc = "L275"
  /\ Call
  /\ wk' = [wk EXCEPT ![j] =
       IF det.kind = "fail" THEN [@ EXCEPT !.pc = "L269", !.items = Tail(@), !.plid = ""]
       ELSE IF det.kind = "badshape" THEN [@ EXCEPT !.pc = "dead"]
       ELSE IF BelowThreshold(Followers(det), job[j].min_followers)
       THEN [@ EXCEPT !.pc = "L269", !.items = Tail(@), !.plid = ""]
       ELSE [@ EXCEPT !.pc = "L308", !.rq = 1,
                      !.row = NewRow(wk[j].plid, job[j].genres[wk[j].gi], Followers(det),
                                     det.desc)]]
  /\ hist' = [hist EXCEPT ![j].fetched = Append(@, wk[j].plid),
                          ![j].late = Late(j, @),
                          ![j].reported = IF det.kind = "ok"
                                          THEN @ \cup {[plid |-> wk[j].plid,
                                                        has_followers |-> det.has_followers,
                                                        total |-> det.total]}
                                          ELSE @]
  /\ UNCHANGED <<now, JOBS, njobs, job, TOK_CACHE, configured, st, subs, lim>>

\* lines 306-308 without the test of the flag
run_job_query_unchecked(j) ==
  /\ wk[j].pc = "L308"
  /\ wk' = [wk EXCEPT ![j].pc = IF wk[j].rq > 2 THEN "L326" ELSE "L309"]
  /\ UNCHANGED <<now, JOBS, njobs, job, TOK_CACHE, configured, st, calls, hist, subs, lim>>

\* lines 306-308: top of the web-search loop
run_job_query(j) ==
  /\ wk[j].pc = "L308"
  /\ IF wk[j].rq > 2
     THEN /\ wk' = [wk EXCEPT ![j].pc = "L326"]
          /\ UNCHANGED hist
     ELSE IF job[j].cancel
     THEN /\ wk' = [wk EXCEPT ![j].pc = "L326"]
          /\ Observe(j, "L308")
     ELSE /\ wk' = [wk EXCEPT ![j].pc = "L309"]
          /\ UNCHANGED hist
  /\ UNCHANGED <<now, JOBS, njobs, job, TOK_CACHE, configured, st, calls, subs, lim>>

\* line 309: duckduckgo_search returns links (none when its fetch fails)
run_job_websearch(j, links) ==
  /\ wk[j].pc = "L309"
  /\ Call
  /\ wk' = [wk EXCEPT ![j].pc = "L312", ![j].links = links]
  /\ hist' = [hist EXCEPT ![j].websearched = Append(@, wk[j].plid), ![j].late = Late(j, @)]
  /\ UNCHANGED <<now, JOBS, njobs, job, TOK_CACHE, configured, st, subs, lim>>

\* line 310: the links of this query are used up
run_job_links_done(j) ==
  /\ wk[j].pc = "L312"
  /\ wk[j].links = <<>>
  /\ wk' = [wk EXCEPT ![j].pc = "L308", ![j].rq = @ + 1]
  /\ UNCHANGED <<now, JOBS, njobs, job, TOK_CACHE, configured, st, calls, hist, subs, lim>>

\* lines 310-325: the next link's page answers a
run_job_link(j, a) ==
  /\ wk[j].pc = "L312"
  /\ wk[j].links # <<>>
  /\ Call
  /\ wk' = [wk EXCEPT ![j] =
       IF a.kind = "ok" /\ (a.found.emails # {} \/ a.found.socials # {})
       THEN [@ EXCEPT !.links = Tail(@),
                      !.row.contacts = Append(@, Contact(Head(wk[j].links), a.found))]
       ELSE [@ EXCEPT !.links = Tail(@)]]
  /\ UNCHANGED <<now, JOBS, njobs, job, TOK_CACHE, configured, st, hist, subs, lim>>

\* lines 326-327
run_job_append(j) ==
  /\ wk[j].pc = "L326"
  /\ wk' = [wk EXCEPT ![j].results = Append(@, wk[j].row), ![j].items = Tail(@),
                      ![j].pc = "L269", ![j].row = NoRow, ![j].plid = "", ![j].rq = 1]
  /\ job' = [job EXCEPT ![j].last_item = wk[j].row.plid]
  /\ UNCHANGED <<now, JOBS, njobs, TOK_CACHE, configured, st, calls, hist, subs, lim>>

\* line 329
run_job_progress(j) ==
  /\ wk[j].pc = "L329"
  /\ job' = [job EXCEPT ![j].progress = @ + 1]
  /\ wk' = [wk EXCEPT ![j].pc = "L257", ![j].gi = @ + 1]
  /\ UNCHANGED <<now, JOBS, njobs, TOK_CACHE, configured, st, calls, hist, subs, lim>>

\* line 330
run_job_results(j) ==
  /\ wk[j].pc = "L330"
  /\ job' = [job EXCEPT ![j].results = wk[j].results]
  /\ wk' = [wk EXCEPT ![j].pc = "L331"]
  /\ UNCHANGED <<now, JOBS, njobs, TOK_CACHE, configured, st, calls, hist, subs, lim>>

\* line 331
run_job_status(j) ==
  /\ wk[j].pc = "L331"
  /\ job' = [job EXCEPT ![j].status = FinalStatus(job[j].cancel)]
  /\ wk' = [wk EXCEPT ![j].pc = "L332"]
  /\ UNCHANGED <<now, JOBS, njobs, TOK_CACHE, configured, st, calls, hist, subs, lim>>

\* line 332
run_job_log_end(j) ==
  /\ wk[j].pc = "L332"
  /\ Put(j, FinalMessage(job[j].cancel), "done")
  /\ UNCHANGED <<now, JOBS, njobs, TOK_CACHE, configured, st, calls, subs, lim>>

\* ------------------------------------------------------ the progress stream
LogEvent(m) == [type |-> "log", msg |-> m, status |-> ""]
DoneEvent(status) == [type |-> "done", msg |-> Msg("", ""), status |-> status]

\* progress, lines 403-407: the handler looks the job up; the generator's first event
progress_open(s, job_id) ==
  /\ s <= lim.streams
  /\ st[s].pc = "none"
  /\ IF JOBS[job_id] = 0
     THEN UNCHANGED st              \* line 405: HTTPException(404)
     ELSE st' = [st EXCEPT ![s] = [pc |-> "L411", job |-> JOBS[job_id],
                                   events |-> <<LogEvent(Msg("connect", ""))>>,
                                   status |-> ""]]
  /\ UNCHANGED <<now, JOBS, njobs, job, wk, TOK_CACHE, configured, calls, hist, subs, lim>>

\* the drain loop taking the newest message first
progress_get_newest(s) ==
  /\ st[s].pc = "L411"
  /\ IF job[st[s].job].log # <<>>
     THEN /\ st' = [st EXCEPT ![s].events =
                      Append(@, [type |-> "log", status |-> "",
                                 msg |-> job[st[s].job].log[Len(job[st[s].job].log)]])]
          /\ job' = [job EXCEPT ![st[s].job].log = SubSeq(@, 1, Len(@) - 1)]
     ELSE /\ st' = [st EXCEPT ![s].pc = "L415"]
          /\ UNCHANGED job
  /\ UNCHANGED <<now, JOBS, njobs, wk, TOK_CACHE, configured, calls, hist, subs, lim>>

\* lines 409-414: one get_nowait of the drain loop
progress_get(s) ==
  /\ st[s].pc = "L411"
  /\ IF job[st[s].job].log # <<>>
     THEN /\ st' = [st EXCEPT ![s].events = Append(@, LogEvent(Head(job[st[s].job].log)))]
          /\ job' = [job EXCEPT ![st[s].job].log = Tail(@)]
     ELSE /\ st' = [st EXCEPT ![s].pc = "L415"]
          /\ UNCHANGED job
  /\ UNCHANGED <<now, JOBS, njobs, wk, TOK_CACHE, configured, calls, hist, subs, lim>>

\* lines 415 and 418
progress_check(s) ==
  /\ st[s].pc = "L415"
  /\ st' = [st EXCEPT ![s].pc = IF job[st[s].job].status \in Terminal THEN "L416" ELSE "L411"]
  /\ UNCHANGED <<now, JOBS, njobs, job, wk, TOK_CACHE, configured, calls, hist, subs, lim>>

\* lines 416-417
progress_done(s) ==
  /\ st[s].pc = "L416"
  /\ st' = [st EXCEPT ![s].events = Append(@, DoneEvent(job[st[s].job].status)),
                      ![s].pc = "closed"]
  /\ UNCHANGED <<now, JOBS, njobs, job, wk, TOK_CACHE, configured, calls, hist, subs, lim>>

\* ================================================= the rate-limited fetcher
\* Time in units of 0.05 s: PER_DOMAIN_COOLDOWN = 0.8 s, GLOBAL_COOLDOWN = 0.15 s.
PER_DOMAIN_COOLDOWN == 16
GLOBAL_COOLDOWN == 3

MaxThreads == 2      \* worker threads of concurrently running jobs
MaxReqs == 2         \* requests each thread makes
MaxTime == 35        \* the clock stops here
MaxLate == 1         \* a sleep overruns by at most this
MaxRetryTime == 70   \* the clock stops here in the run with failing requests

HTTP_RETRIES == 2
BACKOFF == 5         \* 0.25 s

ThreadIx == 1..MaxThreads
Hosts == {"api.spotify.com", "duckduckgo.com"}

\* a thread: its position, the host it fetches from, the locals now and last of
\* _cooldown_for, the end of its sleep, the fetches it has begun, the attempt
\* counter i of _with_retries, and what its latest fetch did (not program state)
IdleThread ==
  [pc |-> "idle", host |-> "", now |-> 0, last |-> 0, wake |-> 0, reqs |-> 0, i |-> 0,
   ev |-> <<>>]

\* the runs explored: several threads whose requests succeed, one thread whose
\* requests may fail
RateRuns ==
  {[threads |-> MaxThreads, reqs |-> MaxReqs, fails |-> FALSE, time |-> MaxTime],
   [threads |-> 1, reqs |-> 1, fails |-> TRUE, time |-> MaxRetryTime]}

\* time.time() is far from the epoch: no host has last = 0.0 within a cooldown
InitRate ==
  /\ clock = PER_DOMAIN_COOLDOWN
  /\ th = [t \in ThreadIx |-> IdleThread]
  /\ last_hit = [h \in Hosts |-> 0]
  /\ released = [h \in Hosts |-> <<>>]
  /\ rlim \in RateRuns

\* http_get / http_post call _with_retries(do), lines 94 and 102; its first attempt,
\* lines 79-81: do() calls _cooldown_for(url), lines 89 and 98; line 66
cooldown_enter(t, h) ==
  /\ t <= rlim.threads
  /\ th[t].pc = "idle"
  /\ th[t].reqs < rlim.reqs
  /\ th' = [th EXCEPT ![t].pc = "L69", ![t].host = h, ![t].reqs = @ + 1, ![t].i = 0,
                      ![t].ev = <<>>]
  /\ UNCHANGED <<clock, last_hit, released, rlim>>

\* line 69
cooldown_now(t) ==
  /\ th[t].pc = "L69"
  /\ th' = [th EXCEPT ![t].pc = "L70", ![t].now = clock]
  /\ UNCHANGED <<clock, last_hit, released, rlim>>

\* line 70
cooldown_last(t) ==
  /\ th[t].pc = "L70"
  /\ th' = [th EXCEPT ![t].pc = "L71", ![t].last = last_hit[th[t].host]]
  /\ UNCHANGED <<clock, last_hit, released, rlim>>

\* line 71
WaitNeeded(now_, last) == PER_DOMAIN_COOLDOWN - (now_ - last)

\* lines 71-73: the sleep, when one is needed, starts now
cooldown_wait(t) ==
  /\ th[t].pc = "L71"
  /\ th' = [th EXCEPT ![t] =
       IF WaitNeeded(@.now, @.last) > 0
       THEN [@ EXCEPT !.pc = "L73", !.wake = clock + WaitNeeded(th[t].now, th[t].last)]
       ELSE [@ EXCEPT !.pc = "L74", !.now = 0, !.last = 0]]
  /\ UNCHANGED <<clock, last_hit, released, rlim>>

\* line 73: time.sleep returns, not before the time asked for
cooldown_wake(t) ==
  /\ th[t].pc = "L73"
  /\ clock >= th[t].wake
  /\ th' = [th EXCEPT ![t].pc = "L74", ![t].now = 0, ![t].last = 0, ![t].wake = 0]
  /\ UNCHANGED <<clock, last_hit, released, rlim>>

\* lines 74-75: the stamp, and the start of the global cooldown's sleep
cooldown_stamp(t) ==
  /\ th[t].pc = "L74"
  /\ last_hit' = [last_hit EXCEPT ![th[t].host] = clock]
  /\ th' = [th EXCEPT ![t].pc = "L75", ![t].wake = clock + GLOBAL_COOLDOWN,
                      ![t].ev = Append(@, "stamp")]
  /\ UNCHANGED <<clock, released, rlim>>

\* the instants of a host's latest two releases: the clock never runs backwards,
\* so the closest two releases of a host are two consecutive ones
LastTwo(s) == IF Len(s) > 2 THEN Tail(s) ELSE s

\* line 75 returns: the request is released
cooldown_release(t) ==
  /\ th[t].pc = "L75"
  /\ clock >= th[t].wake
  /\ released' = [released EXCEPT ![th[t].host] = LastTwo(Append(@, clock))]
  /\ th' = [th EXCEPT ![t].pc = "L92", ![t].wake = 0]
  /\ UNCHANGED <<clock, last_hit, rlim>>

\* _with_retries without the return of line 81: a result is thrown away and the
\* fetch made again
http_request_no_return(t, ok) ==
  /\ th[t].pc = "L92"
  /\ ok \/ rlim.fails
  /\ th' = [th EXCEPT ![t].pc = "L84", ![t].wake = clock + BACKOFF * (th[t].i + 1),
                      ![t].ev = Append(@, IF ok THEN "ok" ELSE "fail")]
  /\ UNCHANGED <<clock, last_hit, released, rlim>>

\* lines 90-93 and 99-101, and _with_retries lines 81-84: the request is sent; its
\* result is returned, or it raises and the backoff sleep starts
http_request(t, ok) ==
  /\ th[t].pc = "L92"
  /\ ok \/ rlim.fails
  /\ th' = [th EXCEPT ![t] =
       IF ok
       THEN [@ EXCEPT !.pc = "idle", !.host = "", !.i = 0, !.ev = @ \o <<"ok", "return">>]
       ELSE [@ EXCEPT !.pc = "L84", !.wake = clock + BACKOFF * (th[t].i + 1),
                      !.ev = Append(@, "fail")]]
  /\ UNCHANGED <<clock, last_hit, released, rlim>>

\* _with_retries lines 84, 79 and 85: the backoff sleep ends; the next attempt, or
\* the last failure is raised
with_retries_wake(t) ==
  /\ th[t].pc = "L84"
  /\ clock >= th[t].wake
  /\ th' = [th EXCEPT ![t] =
       IF th[t].i + 1 < HTTP_RETRIES + 1
       THEN [@ EXCEPT !.pc = "L69", !.wake = 0, !.i = @ + 1]
       ELSE [@ EXCEPT !.pc = "idle", !.host = "", !.wake = 0, !.i = 0,
                      !.ev = Append(@, "raise")]]
  /\ UNCHANGED <<clock, last_hit, released, rlim>>

\* time passes, while every thread is idle or asleep: between its sleeps a thread
\* takes no time, and a sleep ends at most MaxLate after the time asked for
Tick ==
  /\ clock < rlim.time
  /\ \A t \in ThreadIx :
        (th[t].pc = "idle") \/ (th[t].pc \in {"L73", "L75", "L84"} /\ clock < th[t].wake + MaxLate)
  /\ clock' = clock + 1
  /\ UNCHANGED <<th, last_hit, released, rlim>>

CooldownEnter == (\E t \in ThreadIx, h \in Hosts : cooldown_enter(t, h)) /\ UNCHANGED <<engineVars, fnVars>>
CooldownNow == (\E t \in ThreadIx : cooldown_now(t)) /\ UNCHANGED <<engineVars, fnVars>>
CooldownLast == (\E t \in ThreadIx : cooldown_last(t)) /\ UNCHANGED <<engineVars, fnVars>>
CooldownWait == (\E t \in ThreadIx : cooldown_wait(t)) /\ UNCHANGED <<engineVars, fnVars>>
CooldownWake == (\E t \in ThreadIx : cooldown_wake(t)) /\ UNCHANGED <<engineVars, fnVars>>
CooldownStamp == (\E t \in ThreadIx : cooldown_stamp(t)) /\ UNCHANGED <<engineVars, fnVars>>
CooldownRelease == (\E t \in ThreadIx : cooldown_release(t)) /\ UNCHANGED <<engineVars, fnVars>>
HttpRequest == (\E t \in ThreadIx, ok \in BOOLEAN : http_request(t, ok)) /\ UNCHANGED <<engineVars, fnVars>>
WithRetriesWake == (\E t \in ThreadIx : with_retries_wake(t)) /\ UNCHANGED <<engineVars, fnVars>>
TimePasses == Tick /\ UNCHANGED <<engineVars, fnVars>>

NextRate ==
  \/ CooldownEnter
  \/ CooldownNow
  \/ CooldownLast
  \/ CooldownWait
  \/ CooldownWake
  \/ CooldownStamp
  \/ CooldownRelease
  \/ HttpRequest
  \/ WithRetriesWake
  \/ TimePasses

InitRateSpec ==
  InitRate /\ InitEngine /\ configured /\ lim.jobs = 1 /\ lim.streams = 0 /\ call = [op |-> "none"]
  /\ ret = [done |-> FALSE, val |-> FALSE]

SpecRate == InitRateSpec /\ [][NextRate]_vars


\* ============================================== the pure functions, on strings
NoRet == [done |-> FALSE, val |-> FALSE]
NoCall == [op |-> "none"]

\* the functions are not running
InitFnIdle == call = NoCall /\ ret = NoRet

\* str.endswith, str.startswith, the `in` of two strings
EndsWith(s, suf) == Len(suf) <= Len(s) /\ SubSeq(s, Len(s) - Len(suf) + 1, Len(s)) = suf
StartsWith(s, pre) == Len(pre) <= Len(s) /\ SubSeq(s, 1, Len(pre)) = pre
Contains(s, t) == \E i \in 1..(Len(s) - Len(t) + 1) : SubSeq(s, i, i + Len(t) - 1) = t

CharAt(s, i) == SubSeq(s, i, i)
UpperCase == "ABCDEFGHIJKLMNOPQRSTUVWXYZ"
LowerCase == "abcdefghijklmnopqrstuvwxyz"
LowerChar(c) ==
  IF \E i \in 1..Len(UpperCase) : CharAt(UpperCase, i) = c
  THEN CharAt(LowerCase, CHOOSE i \in 1..Len(UpperCase) : CharAt(UpperCase, i) = c)
  ELSE c

\* str.lower
RECURSIVE lower(_)
lower(s) == IF s = "" THEN "" ELSE LowerChar(CharAt(s, 1)) \o lower(SubSeq(s, 2, Len(s)))

\* the first position of one of the characters cs in s from position k on, or
\* Len(s) + 1
FirstOf(s, cs, k) ==
  LET hits == {i \in k..Len(s) : CharAt(s, i) \in cs}
  IN  IF hits = {} THEN Len(s) + 1 ELSE CHOOSE i \in hits : \A h \in hits : i <= h

\* email.split("@")[-1]: what follows the last "@", the whole string without one
LastPart(email) ==
  LET ats == {i \in 1..Len(email) : CharAt(email, i) = "@"}
  IN  IF ats = {} THEN email
      ELSE SubSeq(email, (CHOOSE i \in ats : \A a \in ats : a <= i) + 1, Len(email))

\* the tokens of str.split(): the maximal runs without a blank
Split(s) ==
  {SubSeq(s, i, k) : <<i, k>> \in
     {p \in (1..Len(s)) \X (1..Len(s)) :
        /\ p[1] <= p[2]
        /\ \A n \in p[1]..p[2] : CharAt(s, n) # " "
        /\ (p[1] = 1 \/ CharAt(s, p[1] - 1) = " ")
        /\ (p[2] = Len(s) \/ CharAt(s, p[2] + 1) = " ")}}

\* urllib.parse.urlparse(u).netloc: after the scheme's colon, what stands between
\* a leading "//" and the next "/", "?" or "#"
NetLoc(u) ==
  LET c == FirstOf(u, {":"}, 1)
      rest == IF c <= Len(u) THEN SubSeq(u, c + 1, Len(u)) ELSE u
  IN  IF StartsWith(rest, "//")
      THEN SubSeq(rest, 3, FirstOf(rest, {"/", "?", "#"}, 3) - 1)
      ELSE ""

\* lines 182-187
domain_from_url(u) ==
  LET host == lower(NetLoc(u))
  IN  IF StartsWith(host, "www.") THEN SubSeq(host, 5, Len(host)) ELSE host

\* lines 190-191
FREE_EMAILS ==
  {"gmail.com", "outlook.com", "hotmail.com", "yahoo.com", "proton.me", "protonmail.com",
   "gmx.de", "web.de", "icloud.com", "me.com"}
TRUSTED_PLATFORMS ==
  {"soundplate.com", "dailyplaylists.com", "groover.co", "artist.tools", "droptrack.com",
   "electronicradar.com", "imusician.pro"}

\* line 196: some token of the lower-cased owner name stands in the e-mail domain
OwnerMatch(owner_name, em_dom) ==
  owner_name # "" /\ \E tok \in Split(lower(owner_name)) : tok # "" /\ Contains(em_dom, tok)

\* verify_email with the free-mail test of line 198 moved before the owner test
verify_email_free_first(email, source_url, owner_name) ==
  LET em_dom == lower(LastPart(email))
      src_dom == domain_from_url(source_url)
  IN  IF \/ em_dom = src_dom
         \/ (src_dom # "" /\ EndsWith(em_dom, "." \o src_dom))
         \/ em_dom \in TRUSTED_PLATFORMS
      THEN TRUE
      ELSE IF em_dom \in FREE_EMAILS THEN FALSE
      ELSE IF OwnerMatch(owner_name, em_dom) THEN TRUE
      ELSE IF src_dom \in TRUSTED_PLATFORMS THEN TRUE
      ELSE FALSE

\* verify_email, lines 189-202
verify_email(email, source_url, owner_name) ==
  LET em_dom == lower(LastPart(email))
      src_dom == domain_from_url(source_url)
  IN  IF \/ em_dom = src_dom
         \/ (src_dom # "" /\ EndsWith(em_dom, "." \o src_dom))
         \/ em_dom \in TRUSTED_PLATFORMS
      THEN TRUE
      ELSE IF OwnerMatch(owner_name, em_dom) THEN TRUE
      ELSE IF em_dom \in FREE_EMAILS THEN FALSE
      ELSE IF src_dom \in TRUSTED_PLATFORMS THEN TRUE
      ELSE FALSE

\* the calls of verify_email explored
MailAddrs ==
  {"info@label.io", "dj@mail.Label.io", "x@evillabel.io", "Booking@GMAIL.com",
   "me@me.com", "a@soundplate.com", "promo@agency.net", "x@"}
SourceUrls ==
  {"https://label.io/contact", "https://www.Label.io", "https://soundplate.com/submit?x=1",
   "https://open.spotify.com", "spotify:description", "https://gmail.com/"}
OwnerNames == {"", "  ", "Evil Label", "DJ Me"}

VerifyCalls ==
  [op : {"verify_email"}, email : MailAddrs, source_url : SourceUrls, owner_name : OwnerNames]

VerifyEmail ==
  /\ call.op = "verify_email" /\ ~ret.done
  /\ ret' = [done |-> TRUE, val |-> verify_email(call.email, call.source_url, call.owner_name)]
  /\ UNCHANGED <<call, engineVars, rateVars>>

\* "; ".join(l)
RECURSIVE Join(_, _)
Join(sep, l) ==
  IF l = <<>> THEN ""
  ELSE IF Len(l) = 1 THEN l[1]
  ELSE l[1] \o sep \o Join(sep, Tail(l))

\* dict.get(key, default)
Get(d, key, default) == IF key \in DOMAIN d THEN d[key] ELSE default

\* lines 210-216 and 225-231: the playlist-level fields of a row
BaseFields(base) ==
  [genre |-> Get(base, "genre", ""), playlist_name |-> Get(base, "playlist_name", ""),
   playlist_url |-> Get(base, "playlist_url", ""), followers |-> Get(base, "followers", 0),
   owner_name |-> Get(base, "owner_name", ""), owner_url |-> Get(base, "owner_url", ""),
   owner_id |-> Get(base, "owner_id", "")]

\* lines 209-221: the row of a result without contacts
EmptyRow(base) ==
  [base |-> BaseFields(base), contact_source |-> "", contact_emails |-> "",
   contact_socials |-> "", contact_verified |-> FALSE]

\* lines 224-236: the row of contact c
ContactRow(base, c) ==
  [base |-> BaseFields(base), contact_source |-> Get(c, "source_url", ""),
   contact_emails |-> Join("; ", Get(c, "emails", <<>>)),
   contact_socials |-> Join("; ", Get(c, "socials", <<>>)),
   contact_verified |-> Get(c, "verified", FALSE)]

\* lines 207-236 dropping the results without contacts
RowsOf_skip_empty(base) ==
  LET contacts == Get(base, "contacts", <<>>)
  IN  [i \in 1..Len(contacts) |-> ContactRow(base, contacts[i])]

\* lines 207-236: the rows one result adds
RowsOf(base) ==
  LET contacts == Get(base, "contacts", <<>>)
  IN  IF contacts = <<>> THEN <<EmptyRow(base)>>
      ELSE [i \in 1..Len(contacts) |-> ContactRow(base, contacts[i])]

\* flatten_rows, lines 204-237
RECURSIVE flatten_rows(_)
flatten_rows(results) ==
  IF results = <<>> THEN <<>> ELSE RowsOf(Head(results)) \o flatten_rows(Tail(results))

\* the calls of flatten_rows explored
MaxResults == 2      \* results of a flatten_rows call
MaxContacts == 2     \* contacts of a result
ContactRecs ==
  {[source_url |-> "spotify:description", emails |-> <<>>, raw_emails |-> <<>>,
    socials |-> <<"https://instagram.com/artist">>, verified |-> FALSE],
   [source_url |-> "https://label.io/contact", emails |-> <<"a@label.io", "b@label.io">>,
    raw_emails |-> <<"a@label.io", "b@label.io">>, socials |-> <<>>, verified |-> TRUE],
   [source_url |-> "https://agency.net", emails |-> <<"promo@agency.net">>,
    raw_emails |-> <<"promo@agency.net">>, socials |-> <<>>, verified |-> TRUE]}
ResultRow(name, contacts) ==
  [genre |-> "Techno", playlist_name |-> name, playlist_url |-> "https://open.spotify.com/playlist/" \o name,
   followers |-> 5, owner_name |-> "DJ Me", owner_id |-> "me", owner_url |-> "", contacts |-> contacts]
ResultRows ==
  {ResultRow(name, contacts) : name \in {"A", "B"}, contacts \in SeqsUpTo(ContactRecs, MaxContacts)}
  \cup {[genre |-> "Techno", playlist_name |-> "C"]}
FlattenCalls == [op : {"flatten_rows"}, results : SeqsUpTo(ResultRows, MaxResults)]

FlattenRows ==
  /\ call.op = "flatten_rows" /\ ~ret.done
  /\ ret' = [done |-> TRUE, val |-> flatten_rows(call.results)]
  /\ UNCHANGED <<call, engineVars, rateVars>>

\* ---------------------------------------------------------------- SpecFn
InitFn ==
  /\ InitEngine /\ configured /\ lim.jobs = 1 /\ lim.streams = 0
  /\ InitRate /\ ~rlim.fails
  /\ call \in VerifyCalls \cup FlattenCalls
  /\ ret = NoRet

NextFn ==
  \/ VerifyEmail
  \/ FlattenRows

SpecFn == InitFn /\ [][NextFn]_vars

\* ------------------------------------------------------------------ Spec
GetTokenCheck == (\E j \in JobIx, t \in JobIds : get_spotify_token_check(j, t)) /\ UNCHANGED <<rateVars, fnVars>>
GetTokenExchange == (\E j \in JobIx, a \in ExchangeAnswers : get_spotify_token_exchange(j, a)) /\ UNCHANGED <<rateVars, fnVars>>
GetTokenStore == (\E j \in JobIx : get_spotify_token_store(j)) /\ UNCHANGED <<rateVars, fnVars>>
GetTokenExpiry == (\E j \in JobIx : get_spotify_token_expiry(j)) /\ UNCHANGED <<rateVars, fnVars>>
GetTokenReturn == (\E j \in JobIx : get_spotify_token_return(j)) /\ UNCHANGED <<rateVars, fnVars>>
RunJobRunning == (\E j \in JobIx : run_job_running(j)) /\ UNCHANGED <<rateVars, fnVars>>
RunJobLogStart == (\E j \in JobIx : run_job_log_start(j)) /\ UNCHANGED <<rateVars, fnVars>>
RunJobAuthError == (\E j \in JobIx : run_job_auth_error(j)) /\ UNCHANGED <<rateVars, fnVars>>
RunJobAuthLog == (\E j \in JobIx : run_job_auth_log(j)) /\ UNCHANGED <<rateVars, fnVars>>
RunJobSetup == (\E j \in JobIx : run_job_setup(j)) /\ UNCHANGED <<rateVars, fnVars>>
RunJobGenre == (\E j \in JobIx : run_job_genre(j)) /\ UNCHANGED <<rateVars, fnVars>>
RunJobLogSearch == (\E j \in JobIx : run_job_log_search(j)) /\ UNCHANGED <<rateVars, fnVars>>
RunJobPage == (\E j \in JobIx : run_job_page(j)) /\ UNCHANGED <<rateVars, fnVars>>
RunJobSearch == (\E j \in JobIx, a \in SearchAnswers : run_job_search(j, a)) /\ UNCHANGED <<rateVars, fnVars>>
RunJobItem == (\E j \in JobIx : run_job_item(j)) /\ UNCHANGED <<rateVars, fnVars>>
RunJobDetail == (\E j \in JobIx, det \in DetailAnswers : run_job_detail(j, det)) /\ UNCHANGED <<rateVars, fnVars>>
RunJobQuery == (\E j \in JobIx : run_job_query(j)) /\ UNCHANGED <<rateVars, fnVars>>
RunJobWebsearch == (\E j \in JobIx, links \in SeqsUpTo(Links, MaxLinks) : run_job_websearch(j, links)) /\ UNCHANGED <<rateVars, fnVars>>
RunJobLinksDone == (\E j \in JobIx : run_job_links_done(j)) /\ UNCHANGED <<rateVars, fnVars>>
RunJobLink == (\E j \in JobIx, a \in PageAnswers : run_job_link(j, a)) /\ UNCHANGED <<rateVars, fnVars>>
RunJobAppend == (\E j \in JobIx : run_job_append(j)) /\ UNCHANGED <<rateVars, fnVars>>
RunJobProgress == (\E j \in JobIx : run_job_progress(j)) /\ UNCHANGED <<rateVars, fnVars>>
RunJobResults == (\E j \in JobIx : run_job_results(j)) /\ UNCHANGED <<rateVars, fnVars>>
RunJobStatus == (\E j \in JobIx : run_job_status(j)) /\ UNCHANGED <<rateVars, fnVars>>
RunJobLogEnd == (\E j \in JobIx : run_job_log_end(j)) /\ UNCHANGED <<rateVars, fnVars>>
ProgressOpen == (\E s \in StreamIx, job_id \in JobIds : progress_open(s, job_id)) /\ UNCHANGED <<rateVars, fnVars>>
ProgressGet == (\E s \in StreamIx : progress_get(s)) /\ UNCHANGED <<rateVars, fnVars>>
ProgressCheck == (\E s \in StreamIx : progress_check(s)) /\ UNCHANGED <<rateVars, fnVars>>
ProgressDone == (\E s \in StreamIx : progress_done(s)) /\ UNCHANGED <<rateVars, fnVars>>

Init == InitEngine /\ InitRate /\ ~rlim.fails /\ InitFnIdle

Next ==
  \/ StartJob
  \/ CancelJob
  \/ RunJobRunning
  \/ RunJobLogStart
  \/ GetTokenCheck
  \/ GetTokenExchange
  \/ GetTokenStore
  \/ GetTokenExpiry
  \/ GetTokenReturn
  \/ RunJobAuthError
  \/ RunJobAuthLog
  \/ RunJobSetup
  \/ RunJobGenre
  \/ RunJobLogSearch
  \/ RunJobPage
  \/ RunJobSearch
  \/ RunJobItem
  \/ RunJobDetail
  \/ RunJobQuery
  \/ RunJobWebsearch
  \/ RunJobLinksDone
  \/ RunJobLink
  \/ RunJobAppend
  \/ RunJobProgress
  \/ RunJobResults
  \/ RunJobStatus
  \/ RunJobLogEnd
  \/ ProgressOpen
  \/ ProgressGet
  \/ ProgressCheck
  \/ ProgressDone

Spec == Init /\ [][Next]_vars

\* ------------------------------------------------------------- SpecToken
\* several jobs started together, each worker up to the end of its
\* get_spotify_token call, with enough outbound calls for one exchange each
MaxTokenCalls == 2

TokenRun == [jobs |-> MaxJobs, streams |-> 0, calls |-> MaxTokenCalls, clock |-> MaxClock]

InitToken == InitEngineOf({TokenRun}) /\ InitRate /\ ~rlim.fails /\ InitFnIdle

NextToken ==
  \/ StartJob
  \/ RunJobRunning
  \/ RunJobLogStart
  \/ GetTokenCheck
  \/ GetTokenExchange
  \/ GetTokenStore
  \/ GetTokenExpiry
  \/ GetTokenReturn
  \/ RunJobAuthError
  \/ RunJobAuthLog

SpecToken == InitToken /\ [][NextToken]_vars

\* ---------------------------------------------------------- SpecContacts
\* one job in depth, with the outbound calls for one item's two web searches and
\* a page of each: exchange, search, detail, two web searches, two pages
MaxContactCalls == 7

ContactRun == [jobs |-> 1, streams |-> 0, calls |-> MaxContactCalls, clock |-> 0]

InitContacts ==
  InitEngineOf({ContactRun}) /\ configured /\ InitRate /\ ~rlim.fails /\ InitFnIdle

NextContacts ==
  \/ StartJob
  \/ RunJobRunning
  \/ RunJobLogStart
  \/ GetTokenCheck
  \/ GetTokenExchange
  \/ GetTokenStore
  \/ GetTokenExpiry
  \/ GetTokenReturn
  \/ RunJobAuthError
  \/ RunJobAuthLog
  \/ RunJobSetup
  \/ RunJobGenre
  \/ RunJobLogSearch
  \/ RunJobPage
  \/ RunJobSearch
  \/ RunJobItem
  \/ RunJobDetail
  \/ RunJobQuery
  \/ RunJobWebsearch
  \/ RunJobLinksDone
  \/ RunJobLink
  \/ RunJobAppend
  \/ RunJobProgress
  \/ RunJobResults
  \/ RunJobStatus
  \/ RunJobLogEnd

SpecContacts == InitContacts /\ [][NextContacts]_vars

\* ===================================================================== claims
Created == 1..njobs
Range(f) == {f[i] : i \in DOMAIN f}
NoDup(f) == \A a, b \in DOMAIN f : a # b => f[a] # f[b]
Last(f) == f[Len(f)]
RowIds(rows) == [i \in 1..Len(rows) |-> rows[i].plid]

\* the status changes run_job may make
StatusMoves ==
  {<<"absent", "queued">>, <<"queued", "running">>, <<"running", "done">>,
   <<"running", "cancelled">>, <<"running", "error">>}

\* C1: in every step, under every interleaving of the worker with cancel_job, a
\* job's status either stays or moves along queued -> running -> one of done,
\* cancelled, error; a status of done, cancelled or error never changes again.
C1_StatusMonotone ==
  [][\A j \in JobIx :
       /\ job[j].status # job'[j].status =>
            <<job[j].status, job'[j].status>> \in StatusMoves
       /\ job[j].status \in Terminal => job'[j].status = job[j].status]_vars

\* C1 witness: cancel_job was called on a job whose status was already done
C1_Witness == \E j \in Created : job[j].status = "done" /\ job[j].cancel

\* C2 as claimed: a worker thread that has ended, by returning or by an exception
\* raised outside the guarded calls, leaves its job in a terminal status, and the
\* status is error when an exception ended it.
C2_EndedWorkerIsTerminal ==
  \A j \in Created :
     /\ wk[j].pc \in {"done", "dead"} => job[j].status \in Terminal
     /\ wk[j].pc = "dead" => job[j].status = "error"

\* C3 as claimed: once a checkpoint has seen the flag, the final status is
\* cancelled and the worker's result list never grows again.
C3_NoRowAfterObservation ==
  \A j \in Created :
     hist[j].observed =>
       /\ wk[j].pc \in {"L332", "done"} => job[j].status = "cancelled"
       /\ Len(wk[j].results) = hist[j].rows_at_obs

\* C3 amended: once a checkpoint has seen the flag, the worker ends with status
\* cancelled (never done, never by an exception), and the only row appended after
\* that is the row of the item in hand when the web-search checkpoint saw the flag.
C3_CancelObserved ==
  \A j \in Created :
     hist[j].observed =>
       /\ wk[j].pc # "dead"
       /\ wk[j].pc \in {"L332", "done"} => job[j].status = "cancelled"
       /\ job[j].status \in Terminal => job[j].status = "cancelled"
       /\ Len(wk[j].results) >= hist[j].rows_at_obs
       /\ Len(wk[j].results) <= hist[j].rows_at_obs + (IF hist[j].obs_at = "L308" THEN 1 ELSE 0)
       /\ \A i \in 1..Len(wk[j].results) :
             i > hist[j].rows_at_obs => wk[j].results[i].plid = hist[j].plid_at_obs

\* C3 witness: the web-search checkpoint saw the flag, the row in hand was appended
\* and the job ended cancelled
C3_Witness ==
  \E j \in Created :
     /\ hist[j].observed /\ hist[j].obs_at = "L308"
     /\ wk[j].pc = "done" /\ job[j].status = "cancelled"
     /\ Len(job[j].results) = hist[j].rows_at_obs + 1

Recorded(j) ==
  Range(RowIds(wk[j].results)) \cup Range(RowIds(job[j].results))
  \cup (IF wk[j].pc \in {"L308", "L309", "L312", "L326"} THEN {wk[j].plid} ELSE {})

RowsAboveThreshold(j) ==
  /\ \A i \in 1..Len(wk[j].results) : wk[j].results[i].followers >= job[j].min_followers
  /\ \A i \in 1..Len(job[j].results) : job[j].results[i].followers >= job[j].min_followers

\* C5 as claimed: every row has followers >= min_followers, and an item whose
\* detail reports fewer followers, or no follower count, is not recorded and gets
\* no web search.
C5_NoCountDropped ==
  \A j \in Created :
     /\ RowsAboveThreshold(j)
     /\ \A r \in hist[j].reported :
          (~r.has_followers \/ r.total < job[j].min_followers) =>
             r.plid \notin Recorded(j) /\ r.plid \notin Range(hist[j].websearched)

\* C5 amended: every row has followers >= min_followers, and an item whose detail
\* reports fewer followers than min_followers, a missing follower count counting
\* as 0, is not recorded and gets no web search.
C5_FollowerFilter ==
  \A j \in Created :
     /\ RowsAboveThreshold(j)
     /\ \A r \in hist[j].reported :
          (IF r.has_followers THEN r.total ELSE 0) < job[j].min_followers =>
             r.plid \notin Recorded(j) /\ r.plid \notin Range(hist[j].websearched)

\* C5 witness: one item was dropped for its follower count, a later one recorded
C5_Witness ==
  \E j \in Created :
     /\ \E r \in hist[j].reported :
          /\ (IF r.has_followers THEN r.total ELSE 0) < job[j].min_followers
          /\ r.plid \in Range(hist[j].fetched)
     /\ Recorded(j) # {}

RECURSIVE IsSubSeq(_, _)
IsSubSeq(a, b) ==
  IF a = <<>> THEN TRUE
  ELSE IF b = <<>> THEN FALSE
  ELSE IF Head(a) = Head(b) THEN IsSubSeq(Tail(a), Tail(b))
  ELSE IsSubSeq(a, Tail(b))

\* the queue messages a stream has emitted: its log events after the connect event
Drained(s) ==
  LET ev == SelectSeq(st[s].events, LAMBDA e : e.type = "log")
  IN  [i \in 1..(Len(ev) - 1) |-> ev[i + 1].msg]

\* C7: a progress stream emits the messages of the job's queue in the order the
\* worker enqueued them (all of those taken off the queue, when it is the job's
\* only stream), emits a done event only when the job's status is done, cancelled
\* or error, carrying that status, and the done event is its one last event.
C7_StreamOrder ==
  \A s \in StreamIx :
     st[s].pc # "none" =>
       LET j == st[s].job
           ev == st[s].events
       IN  /\ ev[1].type = "log" /\ ev[1].msg.msg = "connect"
           /\ \A i \in 1..Len(ev) :
                ev[i].type = "done" =>
                  /\ i = Len(ev) /\ st[s].pc = "closed"
                  /\ ev[i].status \in Terminal /\ ev[i].status = job[j].status
           /\ st[s].pc = "closed" => ev[Len(ev)].type = "done"
           /\ IsSubSeq(Drained(s), hist[j].enq)
           /\ (\A s2 \in StreamIx : (st[s2].pc # "none" /\ st[s2].job = j) => s2 = s)
                => Drained(s) \o job[j].log = hist[j].enq

\* C7 witness: a stream that ended after draining several messages
C7_Witness ==
  \E s \in StreamIx :
     /\ st[s].pc = "closed"
     /\ Len(Drained(s)) >= 3
     /\ st[s].events[Len(st[s].events)].type = "done"

\* C8 as claimed: the identifiers returned by any two submissions differ, and
\* each returned identifier addresses the job record its submission created.
C8_DistinctIds ==
  /\ \A a, b \in 1..Len(subs) : a # b => subs[a][1] # subs[b][1]
  /\ \A a \in 1..Len(subs) : JOBS[subs[a][1]] = subs[a][2]

\* C9: a job record appears only by a submission with a non-empty genre list,
\* which creates exactly one record (status queued, flag unset, no results,
\* progress 0) and starts exactly one worker, for that record; no other step
\* creates a record or starts a worker.
C9_Submission ==
  [][/\ njobs' \in {njobs, njobs + 1}
     /\ \A j \in JobIx :
          (job[j].status = "absent" /\ job'[j].status # "absent") =>
             /\ j = njobs + 1 /\ njobs' = j
             /\ job'[j].genres # <<>>
             /\ job'[j].status = "queued" /\ job'[j].cancel = FALSE
             /\ job'[j].results = <<>> /\ job'[j].progress = 0 /\ job'[j].log = <<>>
             /\ wk'[j].pc = "L240"
             /\ \A k \in JobIx \ {j} : job'[k] = job[k] /\ wk'[k] = wk[k]
             /\ JOBS'[job'[j].id] = j
     /\ \A j \in JobIx :
          (wk[j].pc = "none" /\ wk'[j].pc # "none") =>
             job[j].status = "absent" /\ job'[j].status = "queued"
     /\ njobs' = njobs + 1 => job[njobs'].status = "absent" /\ job'[njobs'].status = "queued"
    ]_vars

\* C9 witness: a submission has just created a queued job and its worker
C9_Witness ==
  \E j \in Created :
     /\ job[j].status = "queued" /\ wk[j].pc = "L240"
     /\ job[j].genres # <<>> /\ ~job[j].cancel

\* C10: when get_spotify_token raises at the start of a job, the worker ends with
\* status error and the failure message as its last message, and the job makes no
\* catalog search, detail fetch or web search and holds no result row.
C10_AuthFailure ==
  \A j \in Created :
     hist[j].authfail =>
       /\ wk[j].pc \in {"L246", "L247", "done"}
       /\ wk[j].pc \in {"L247", "done"} => job[j].status = "error"
       /\ wk[j].pc = "done" => Last(hist[j].enq).msg = "Auth-Fehler"
       /\ hist[j].searches = 0 /\ hist[j].fetched = <<>> /\ hist[j].websearched = <<>>
       /\ wk[j].results = <<>> /\ job[j].results = <<>>

\* C10 witness: a job ended after get_spotify_token raised
C10_Witness ==
  \E j \in Created : hist[j].authfail /\ wk[j].pc = "done" /\ job[j].status = "error"

\* C6 as claimed: any two requests to the same host, of one worker or of workers
\* of different jobs, are released by the cooldown step at instants at least
\* PER_DOMAIN_COOLDOWN apart.
C6_ReleaseSpacing ==
  \A h \in Hosts : \A a, b \in 1..Len(released[h]) :
     a < b => released[h][b] - released[h][a] >= PER_DOMAIN_COOLDOWN


\* ------------------------------------------------------------- C11, C12
\* the e-mail domain and the source page's domain of a verify_email call
EmailDomain(c) == lower(LastPart(c.email))
SourceDomain(c) == domain_from_url(c.source_url)

\* d is a subdomain of p: p follows one of d's dots
IsSubdomain(d, p) == \E i \in 1..Len(d) : CharAt(d, i) = "." /\ SubSeq(d, i + 1, Len(d)) = p

\* rule 3 of the claim
C11_OwnerRule(c) == \E tok \in Split(lower(c.owner_name)) : Contains(EmailDomain(c), tok)

\* the first rule of the claim's list that matches the call
C11_FirstRule(c) ==
  IF EmailDomain(c) = SourceDomain(c) \/ IsSubdomain(EmailDomain(c), SourceDomain(c)) THEN 1
  ELSE IF EmailDomain(c) \in TRUSTED_PLATFORMS THEN 2
  ELSE IF C11_OwnerRule(c) THEN 3
  ELSE IF EmailDomain(c) \in FREE_EMAILS THEN 4
  ELSE IF SourceDomain(c) \in TRUSTED_PLATFORMS THEN 5
  ELSE 6

\* C11: verify_email returns what the first matching rule of the list says: true
\* for rules 1, 2, 3 and 5, false for rules 4 and 6; a free-mail address found on
\* a trusted platform's page is rejected unless rule 3 matches; an empty owner
\* name does not match rule 3.
C11_RuleOrder ==
  (call.op = "verify_email" /\ ret.done) =>
     /\ ret.val = (C11_FirstRule(call) \in {1, 2, 3, 5})
     /\ (EmailDomain(call) \in FREE_EMAILS /\ SourceDomain(call) \in TRUSTED_PLATFORMS
           /\ ~C11_OwnerRule(call)) => ret.val = FALSE
     /\ call.owner_name = "" => C11_FirstRule(call) # 3

\* C11 witness: a free-mail address on a trusted platform's page, accepted for the
\* owner's name
C11_Witness ==
  /\ call.op = "verify_email" /\ ret.done /\ ret.val = TRUE
  /\ EmailDomain(call) \in FREE_EMAILS /\ SourceDomain(call) \in TRUSTED_PLATFORMS
  /\ C11_FirstRule(call) = 3


\* the rows the results before result r take: max(1, number of contacts) each
NumContacts(base) == Len(Get(base, "contacts", <<>>))
RowCount(base) == IF NumContacts(base) >= 1 THEN NumContacts(base) ELSE 1
RECURSIVE RowsBefore(_, _)
RowsBefore(results, r) ==
  IF r = 1 THEN 0 ELSE RowsBefore(results, r - 1) + RowCount(results[r - 1])

\* C12: flatten_rows returns, result after result in input order, one row with
\* empty contact fields and contact_verified false for a result without contacts
\* and one row per contact, in contact order, for a result with contacts, each
\* row repeating the result's playlist-level fields; the row count is the sum of
\* max(1, number of contacts).
C12_Flatten ==
  (call.op = "flatten_rows" /\ ret.done) =>
     LET results == call.results
         rows == ret.val
     IN  /\ Len(rows) = RowsBefore(results, Len(results) + 1)
         /\ \A r \in 1..Len(results) :
              LET base == results[r]
                  at == RowsBefore(results, r)
              IN  /\ \A k \in (at + 1)..(at + RowCount(base)) :
                        /\ rows[k].base.playlist_name = base.playlist_name
                        /\ rows[k].base.genre = base.genre
                        /\ rows[k].base.followers = Get(base, "followers", 0)
                        /\ rows[k].base.owner_name = Get(base, "owner_name", "")
                  /\ NumContacts(base) = 0 =>
                        /\ rows[at + 1].contact_source = "" /\ rows[at + 1].contact_emails = ""
                        /\ rows[at + 1].contact_socials = ""
                        /\ rows[at + 1].contact_verified = FALSE
                  /\ \A k \in 1..NumContacts(base) :
                        /\ rows[at + k].contact_source = base.contacts[k].source_url
                        /\ rows[at + k].contact_verified = base.contacts[k].verified
                        /\ rows[at + k].contact_emails = Join("; ", base.contacts[k].emails)
                        /\ rows[at + k].contact_socials = Join("; ", base.contacts[k].socials)

\* C12 witness: a result without contacts, then a result with two contacts: 3 rows
C12_Witness ==
  /\ call.op = "flatten_rows" /\ ret.done
  /\ Len(call.results) = 2
  /\ NumContacts(call.results[1]) = 0 /\ NumContacts(call.results[2]) = 2
  /\ call.results[2].contacts[1] # call.results[2].contacts[2]
  /\ Len(ret.val) = 3


\* C13 as claimed: when a job's single progress stream has ended, every message
\* the worker enqueues (the final message and the credential-failure message
\* included) was emitted by it as a log event before its done event: none is
\* left on the queue.
C13_AllDelivered ==
  \A s \in StreamIx :
     (/\ st[s].pc = "closed"
      /\ \A s2 \in StreamIx : (st[s2].pc # "none" /\ st[s2].job = st[s].job) => s2 = s)
       => /\ Drained(s) = hist[st[s].job].enq
          /\ job[st[s].job].log = <<>>


\* the worker of job j makes an outbound call in this step
CallBy(j) == calls' = calls + 1 /\ wk'[j] # wk[j]

\* the positions of the calls made straight after a test of the flag: the catalog
\* search, the detail fetch, the web search
CheckedCalls == {"L262", "L275", "L309"}

\* C14 as claimed: the flag is tested before every outbound call, so a call made
\* with the flag set is the one in flight (the flag was set between the test and
\* the call), at most one per job, and none is made after a checkpoint saw the flag.
C14_CheckedBeforeEveryCall ==
  [][\A j \in JobIx :
       /\ hist'[j].late <= 1
       /\ CallBy(j) => ~hist[j].observed
       /\ (CallBy(j) /\ job[j].cancel) => wk[j].pc \in CheckedCalls]_vars

\* C14 amended: the flag is tested before every catalog search, detail fetch and
\* web search: with the flag set the worker makes at most one of these (the one in
\* flight), and no call at all once a checkpoint saw the flag.  The other calls it
\* makes with the flag set are the credential exchange and the contact-page
\* fetches of the web search in flight.
C14_InFlightOnly ==
  [][\A j \in JobIx :
       /\ hist'[j].late <= 1
       /\ CallBy(j) => ~hist[j].observed
       /\ (CallBy(j) /\ job[j].cancel /\ wk[j].pc \notin CheckedCalls) =>
            \/ wk[j].pc = "L112"
            \/ wk[j].pc = "L312" /\ hist[j].late <= 1]_vars

\* C14 witness: the flag was set between a test and its call; the call was made,
\* the next checkpoint saw the flag and the job ended cancelled
C14_Witness ==
  \E j \in Created :
     hist[j].late = 1 /\ hist[j].observed /\ wk[j].pc = "done" /\ job[j].status = "cancelled"


\* the messages of job j's history with text m
Enqueued(j, m) == {i \in 1..Len(hist[j].enq) : hist[j].enq[i].msg = m}

\* C15: failed catalog searches, detail fetches, web searches and contact-page
\* fetches never make the status error (only a failed get_spotify_token does): a
\* worker that got its token ends done or cancelled, cancelled only with the flag
\* set, and a job that ends done has searched every genre, whatever failed before.
C15_SecondaryNotFatal ==
  \A j \in Created :
     /\ job[j].status = "error" => hist[j].authfail
     /\ (wk[j].pc = "done" /\ ~hist[j].authfail) => job[j].status \in {"done", "cancelled"}
     /\ job[j].status = "cancelled" => job[j].cancel
     /\ job[j].status = "done" =>
          /\ hist[j].searches >= Len(job[j].genres)
          /\ \A g \in 1..Len(job[j].genres) :
                \E i \in Enqueued(j, "Spotify-Suche") : hist[j].enq[i].arg = job[j].genres[g]

\* C15 witness: the first genre's search failed, the second genre was searched,
\* and the job ended done
C15_Witness ==
  \E j \in Created :
     /\ wk[j].pc = "done" /\ job[j].status = "done" /\ Len(job[j].genres) = 2
     /\ \E i \in Enqueued(j, "Spotify API Fehler"), k \in Enqueued(j, "Spotify-Suche") : i < k


\* the worker of job j has a catalog search fail in this step
SearchFails(j) ==
  /\ wk[j].pc = "L262" /\ CallBy(j)
  /\ wk'[j].pc # "dead" /\ wk'[j].items = <<>>
  /\ Len(hist'[j].enq) > Len(hist[j].enq)

\* the worker of job j has a detail fetch fail in this step
DetailFails(j) ==
  /\ wk[j].pc = "L275" /\ CallBy(j)
  /\ wk'[j].pc # "dead" /\ hist'[j].reported = hist[j].reported

\* C16 as claimed: a failed catalog search and a failed detail fetch each enqueue
\* a log message and skip only the failed unit: after a failed search the worker
\* goes on to the next page of the same genre, after a failed detail fetch to the
\* next item of the page.
C16_FailedUnitSkipped ==
  [][\A j \in JobIx :
       /\ SearchFails(j) =>
            /\ Len(hist'[j].enq) = Len(hist[j].enq) + 1
            /\ wk'[j].gi = wk[j].gi /\ wk'[j].pc = "L260" /\ wk'[j].page = wk[j].page + 1
       /\ DetailFails(j) =>
            /\ Len(hist'[j].enq) = Len(hist[j].enq) + 1
            /\ wk'[j].pc = "L269" /\ wk'[j].items = Tail(wk[j].items)]_vars


\* the genres job j's worker has begun: one "Spotify-Suche" message each
Begun(j) == Cardinality(Enqueued(j, "Spotify-Suche"))

\* C17: progress counts the genres processed, once each: it is never negative nor
\* above total_steps once that is set; it is the number of genres begun, less the
\* one in hand; a job that ends done has progress = the number of genres
\* submitted; a genre skipped at the top of the genre loop adds nothing.
C17_Progress ==
  \A j \in Created :
     /\ job[j].progress >= 0
     /\ job[j].total_steps # 0 =>
          /\ job[j].total_steps = Len(job[j].genres)
          /\ job[j].progress <= job[j].total_steps
     /\ job[j].progress \in {Begun(j), Begun(j) - 1}
     /\ wk[j].pc \in {"L257", "L330", "L331", "L332", "done"} => job[j].progress = Begun(j)
     /\ job[j].status = "done" => job[j].progress = Len(job[j].genres)
     /\ (hist[j].observed /\ hist[j].obs_at = "L257" /\ wk[j].pc = "done") =>
          job[j].progress < Len(job[j].genres)

\* C17 witness: the flag was seen at the top of the genre loop with one of two
\* genres processed; the job ended with progress 1
C17_Witness ==
  \E j \in Created :
     /\ hist[j].observed /\ hist[j].obs_at = "L257" /\ wk[j].pc = "done"
     /\ Len(job[j].genres) = 2 /\ job[j].progress = 1


\* the request attempts of a fetch: the positions in its events where a request
\* was sent
Attempts(ev) == {k \in 1..Len(ev) : ev[k] \in {"ok", "fail"}}

\* C18: a fetch sends at most HTTP_RETRIES + 1 requests; every request is sent
\* straight after a pass through the cooldown that stamped the host's last-request
\* time; the first request that succeeds ends the fetch, which returns its result;
\* the fetch raises only after HTTP_RETRIES + 1 failed requests, and then ends.
C18_Retries ==
  \A t \in ThreadIx :
     LET ev == th[t].ev
     IN  /\ Cardinality(Attempts(ev)) <= HTTP_RETRIES + 1
         /\ \A k \in Attempts(ev) : k > 1 /\ ev[k - 1] = "stamp"
         /\ \A k \in 1..Len(ev) :
              /\ ev[k] = "ok" => (Len(ev) = k + 1 /\ ev[k + 1] = "return")
              /\ ev[k] = "return" => (k > 1 /\ ev[k - 1] = "ok")
              /\ ev[k] = "raise" =>
                   /\ k = Len(ev) /\ ev[k - 1] = "fail"
                   /\ Cardinality(Attempts(ev)) = HTTP_RETRIES + 1
                   /\ \A a \in Attempts(ev) : ev[a] = "fail"
              /\ ev[k] = "stamp" => (k = Len(ev) \/ ev[k + 1] \in {"ok", "fail"})
         /\ (th[t].pc = "idle" /\ ev # <<>>) => ev[Len(ev)] \in {"return", "raise"}
         /\ th[t].pc = "L92" => (ev # <<>> /\ ev[Len(ev)] = "stamp")

\* C18 witness: a fetch whose three requests failed has raised
C18_Witness ==
  \E t \in ThreadIx :
     th[t].pc = "idle" /\ th[t].ev = <<"stamp", "fail", "stamp", "fail", "stamp", "fail", "raise">>


\* the worker of job j returns from get_spotify_token in this step
TokenReturned(j) == wk[j].pc \in {"L105", "L116"} /\ wk'[j].pc = "L249"

\* C19 as claimed: get_spotify_token exchanges credentials exactly when the cache
\* holds no token or one that expires within 30 s, and else returns the cached
\* token without a request; after an exchange (no other job running) the cache
\* holds the token returned and the expiry now + lifetime; without configured
\* credentials the call fails, and it never returns an empty credential.
C19_TokenOrError ==
  [][\A j \in JobIx :
       /\ (wk[j].pc = "L105" /\ wk'[j].pc # "L105") =>
            IF CacheValid(TOK_CACHE, now')
            THEN /\ wk'[j].pc = "L249" /\ wk'[j].token = TOK_CACHE.access_token
                 /\ calls' = calls
            ELSE IF configured THEN wk'[j].pc = "L112" ELSE wk'[j].pc = "L246"
       /\ (wk[j].pc = "L116" /\ wk'[j].pc = "L249" /\ njobs = 1) =>
            /\ TOK_CACHE.access_token = wk[j].data.access_token
            /\ TOK_CACHE.exp = wk[j].tnow + 1000 * wk[j].data.expires_in
            /\ wk'[j].token = wk[j].data.access_token
       /\ TokenReturned(j) => wk'[j].token # ""]_vars


\* the cache holds a token and an expiry written by the same exchange
CachePaired(cache) == cache.tok_by = cache.exp_by

\* worker j is between its write of the token (line 114) and its write of the
\* expiry (line 115)
Updating(j) == wk[j].pc = "L115"

\* the step is a read of the cache by worker j: the test of line 106 or the
\* return of line 116
ReadsCache(j) ==
  /\ wk[j].pc \in {"L105", "L116"}
  /\ wk'[j].pc # wk[j].pc

\* C20: with several workers calling get_spotify_token, the cached expiry is
\* the expiry of the cached token (both written by the same exchange) in every
\* state where no worker is between its two writes, and every read of the cache
\* by a worker (the validity test, the return of the token) sees a token and an
\* expiry written by the same exchange.
C20_AtomicCache ==
  [][/\ (\A j \in JobIx : ~Updating(j)') => CachePaired(TOK_CACHE')
     /\ \A j \in JobIx : ReadsCache(j) => CachePaired(TOK_CACHE)]_vars


\* the rows worker j holds: the results so far and the row being enriched
RowsHeld(j) ==
  {wk[j].results[i] : i \in 1..Len(wk[j].results)} \cup {wk[j].row}

\* no two records of the contact list have the same source
DistinctSources(contacts) ==
  \A a, b \in 1..Len(contacts) :
     contacts[a].source_url = contacts[b].source_url => a = b

\* every record's flag tells whether it has a verified address
VerifiedFlags(contacts) ==
  \A a \in 1..Len(contacts) : contacts[a].verified = (contacts[a].emails # {})

\* C21: within one playlist's row no two contact records have the same source
\* URL, also when both web searches of the item return the same link, and every
\* record has verified = true exactly when its list of verified addresses is
\* non-empty.
C21_OnePerSource ==
  \A j \in JobIx : \A row \in RowsHeld(j) :
     DistinctSources(row.contacts) /\ VerifiedFlags(row.contacts)


\* the last message job j's worker enqueued
LastEnqueued(j) == hist[j].enq[Len(hist[j].enq)]

\* the worker of job j has returned from run_job
Returned(j) == wk[j].pc = "done"

\* C22: the final log message agrees with the terminal status under every
\* interleaving with cancel_job: once the worker has returned, a job with
\* status done has "Job beendet." as its last enqueued message and a job with
\* status cancelled has "Job abgebrochen."; never status done with the
\* aborted message.
C22_FinalMessageAgrees ==
  \A j \in JobIx :
     Returned(j) =>
        /\ job[j].status = "done" => LastEnqueued(j) = Msg("Job beendet.", "")
        /\ job[j].status = "cancelled" => LastEnqueued(j) = Msg("Job abgebrochen.", "")

====
